---- MODULE Spec2Model ----
(***************************************************************************)
(* Model of waters_to_imzml.py: the chunked, memory-monitored conversion   *)
(* of one mzMLb dataset to imzML (class mzmlb_conv and                     *)
(* ChunkedSpectrumProcessor), the metadata parser get_coords and the batch *)
(* driver run_conversion.                                                  *)
(*                                                                         *)
(* A spectrum is represented by the pixel index it was read from (the      *)
(* arrays returned by get_by_index(j) are determined by j) together with   *)
(* the coordinate triple stored beside it.                                 *)
(***************************************************************************)
EXTENDS Integers, Sequences, FiniteSets, TLC

\* ---- bounds of the model ------------------------------------------------
MaxX == 6           \* grid widths 1..MaxX
MaxY == 4           \* grid heights 1..MaxY
MaxFail == 1        \* at most this many pixel indices fail in the reader (Spec)
MaxFaults == 1      \* at most this many non-reader faults inside workers
MaxStart == 1       \* SpecChunk: chunk ranges start at 0..MaxStart
MaxChunkLen == 11   \* SpecChunk: chunk ranges of 0..MaxChunkLen indices
MaxChunkFail == 2   \* SpecChunk: at most this many failing indices
MaxFiles == 2       \* SpecDriver: raw files found by glob('*.raw')
MaxMatches == 2     \* SpecDriver: files matching a lookup pattern
MaxLen == 3         \* SpecDriver: DesiXLength, DesiYLength in -MaxLen..MaxLen
MaxStep == 2        \* SpecDriver: DesiXStep, DesiYStep in -MaxStep..MaxStep

\* ---- program constants --------------------------------------------------
ChunkCap == 1000        \* min(1000, total_pixels // 4)
SubBatchSize == 5       \* process_chunk: batch_size = 5
BatchSize == 2          \* _create_profile_spectra: batch_size = 2
NJobs == 2              \* _create_profile_spectra: n_jobs = 2
WriteBatchSize == 100   \* _convert_to_imzml: batch_size = 100

VARIABLES
    x, y,            \* self.x, self.y (coord_tuple)
    failSet,         \* the pixel indices on which file.get_by_index raised
    failMax,         \* bound on the number of indices the reader fails on
    pc,              \* position of the orchestrating thread in mzmlb_conv
    err,             \* the exception that ended the conversion, "none" if none
    coords,          \* self.coords
    chunk_size,      \* self.chunk_size
    chunk_indices,   \* chunk_indices of _create_profile_spectra
    bi,              \* loop variable i of the batch loop (0-based)
    task,            \* per chunk: the process_chunk call working on it
    spectra,         \* self.spectra
    writerOpened,    \* ImzMLWriter(...) has been entered
    wi,              \* loop variable i of the write loop (0-based)
    written,         \* the sequence of addSpectrum calls
    reads,           \* per pixel index, the number of get_by_index calls
    gcForced,        \* force_garbage_collection has been called
    faults           \* number of non-reader faults raised inside workers

pipeVars == <<x, y, failSet, failMax, pc, err, coords, chunk_size,
              chunk_indices, bi, task, spectra, writerOpened, wi, written,
              reads, gcForced, faults>>

VARIABLES
    dpc,             \* position of run_conversion for the current raw file
    filesLeft,       \* raw files not yet processed by the loop
    nMzmlb,          \* number of files matching the id pattern in mzmlb/
    nInf,            \* number of files matching _*.inf in the raw folder
    meta,            \* the four values of the metadata file
    coordTuple,      \* the value returned by get_coords
    derr,            \* the unhandled exception of run_conversion, if any
    invoked          \* number of mzmlb_conv invocations

drvVars == <<dpc, filesLeft, nMzmlb, nInf, meta, coordTuple, derr, invoked>>

vars == <<pipeVars, drvVars>>

\* ---- helpers -------------------------------------------------------------
Min(a, b) == IF a <= b THEN a ELSE b

\* subsets of S with at most n elements
RECURSIVE SmallSubsets(_, _)
SmallSubsets(S, n) ==
    IF n <= 0 THEN {{}}
    ELSE LET P == SmallSubsets(S, n - 1)
         IN  P \cup {F \cup {e} : F \in P, e \in S}

\* [(i+1, j+1, 1) for j in range(h)] for a fixed i
CoordsRow(i, h) == [j \in 1..h |-> <<i + 1, j, 1>>]

RECURSIVE CoordsUpTo(_, _)
CoordsUpTo(n, h) ==
    IF n <= 0 THEN <<>> ELSE CoordsUpTo(n - 1, h) \o CoordsRow(n - 1, h)

\* faulty variant: the inner loop runs over range(self.x) too
CoordsSquare(w, h) == CoordsUpTo(w, w)
\* self.coords = [(i+1, j+1, 1) for i in range(x) for j in range(y)]
Coords(w, h) == CoordsUpTo(w, h)

\* self.chunk_size = min(1000, total_pixels // 4)
ChunkSize(total) == Min(ChunkCap, total \div 4)

\* [(i, min(i + cs, total)) for i in range(0, total, cs)], cs > 0
RECURSIVE ChunksFrom(_, _, _)
ChunksFrom(i, total, cs) ==
    IF i >= total THEN <<>>
    ELSE << <<i, Min(i + cs, total)>> >> \o ChunksFrom(i + cs, total, cs)

ChunkIndices(total, cs) == ChunksFrom(0, total, cs)

\* [mz_array, intensity_array, coords[j]] of pixel j
Spectrum(j, cs) == [pixel |-> j, coord |-> cs[j + 1]]

NewTask == [st |-> "new", i |-> 0, out |-> <<>>, faulted |-> FALSE]

ChunkStart(c) == chunk_indices[c][1]
ChunkEnd(c) == chunk_indices[c][2]

\* faulty variant: every remaining chunk is handed to one Parallel call
AllRemainingChunks(i) == {c \in 1..Len(chunk_indices) : c > i}
\* current_chunks = chunk_indices[i:i + batch_size], as chunk numbers
BatchChunks(i) == {c \in 1..Len(chunk_indices) : c > i /\ c <= i + BatchSize}

Running == {c \in DOMAIN task : task[c].st = "running"}

DrvIdle ==
    /\ dpc = "idle" /\ filesLeft = 0 /\ nMzmlb = 0 /\ nInf = 0
    /\ meta = <<0, 1, 0, 1>> /\ coordTuple = <<0, 0>>
    /\ derr = "none" /\ invoked = 0

\* ---- mzmlb_conv: the state after the assignments of __init__ -------------
Init ==
    /\ x \in 1..MaxX
    /\ y \in 1..MaxY
    /\ failSet = {}
    /\ failMax = MaxFail
    /\ pc = "open"
    /\ err = "none"
    /\ coords = <<>>
    /\ chunk_size = ChunkSize(x * y)
    /\ chunk_indices = <<>>
    /\ bi = 0
    /\ task = <<>>
    /\ spectra = <<>>
    /\ writerOpened = FALSE
    /\ wi = 0
    /\ written = <<>>
    /\ reads = [j \in 0..(x * y - 1) |-> 0]
    /\ gcForced = FALSE
    /\ faults = 0
    /\ DrvIdle

\* self.file = mzmlb.read(self.file_path)
OpenReader ==
    /\ pc = "open"
    /\ pc' = "coords"
    /\ UNCHANGED <<x, y, failSet, failMax,
                   err, coords, chunk_size, chunk_indices, bi,
                   task, spectra, writerOpened, wi, written, reads, gcForced,
                   faults, drvVars>>

\* mzmlb.read raises: the finally of __init__ runs gc.collect() only
OpenReaderFail ==
    /\ pc = "open"
    /\ pc' = "failed"
    /\ err' = "open"
    /\ UNCHANGED <<x, y, failSet, failMax,
                   coords, chunk_size, chunk_indices, bi,
                   task, spectra, writerOpened, wi, written, reads, gcForced,
                   faults, drvVars>>

BuildCoords ==
    /\ pc = "coords"
    /\ coords' = Coords(x, y)
    /\ pc' = "chunks"
    /\ UNCHANGED <<x, y, failSet, failMax,
                   err, chunk_size, chunk_indices, bi,
                   task, spectra, writerOpened, wi, written, reads, gcForced,
                   faults, drvVars>>

\* chunk_indices = [... for i in range(0, total_pixels, self.chunk_size)];
\* range() raises ValueError for a step of 0, which the except clause logs
\* and re-raises
BuildChunks ==
    /\ pc = "chunks"
    /\ IF chunk_size = 0
       THEN /\ pc' = "failed"
            /\ err' = "range"
            /\ UNCHANGED <<chunk_indices, task, bi>>
       ELSE /\ chunk_indices' = ChunkIndices(x * y, chunk_size)
            /\ task' = [c \in 1..Len(chunk_indices') |-> NewTask]
            /\ bi' = 0
            /\ pc' = "batch"
            /\ err' = err
    /\ UNCHANGED <<x, y, failSet, failMax,
                   coords, chunk_size, spectra, writerOpened,
                   wi, written, reads, gcForced, faults, drvVars>>

\* head of the batch loop: memory check, then the Parallel call hands the
\* chunks of the batch to the pool
BatchStart(m) ==
    /\ pc = "batch"
    /\ bi < Len(chunk_indices)
    /\ gcForced' = (gcForced \/ ~m)
    /\ task' = [c \in DOMAIN task |->
                  IF c \in BatchChunks(bi)
                  THEN [task[c] EXCEPT !.st = "pending"]
                  ELSE task[c]]
    /\ pc' = "parallel"
    /\ UNCHANGED <<x, y, failSet, failMax,
                   err, coords, chunk_size, chunk_indices, bi,
                   spectra, writerOpened, wi, written, reads, faults, drvVars>>

\* MemoryMonitor.check_memory raises at the head of the batch loop
BatchMemFail ==
    /\ pc = "batch"
    /\ bi < Len(chunk_indices)
    /\ pc' = "failed"
    /\ err' = "memcheck"
    /\ UNCHANGED <<x, y, failSet, failMax,
                   coords, chunk_size, chunk_indices, bi,
                   task, spectra, writerOpened, wi, written, reads, gcForced,
                   faults, drvVars>>

\* the tasks of the aborted Parallel call: their results are never
\* assigned to results
LostTasks ==
    [c \in DOMAIN task |->
       IF task[c].st \in {"pending", "running", "returned"}
       THEN [st |-> "lost", i |-> 0, out |-> <<>>, faulted |-> task[c].faulted]
       ELSE task[c]]

\* the Parallel call itself raises (a worker process is lost, a task cannot
\* be pickled): logged and re-raised by _create_profile_spectra
ParallelFail ==
    /\ pc = "parallel"
    /\ pc' = "failed"
    /\ err' = "parallel"
    /\ task' = LostTasks
    /\ UNCHANGED <<x, y, failSet, failMax,
                   coords, chunk_size, chunk_indices,
                   bi, spectra, writerOpened, wi, written, reads, gcForced,
                   faults, drvVars>>

\* ---- ChunkedSpectrumProcessor.process_chunk, run by a pool worker -------
taskRest == <<x, y, failMax, pc, err, coords, chunk_size, chunk_indices, bi,
              spectra, writerOpened, wi, written, drvVars>>

\* a free worker of the pool takes a chunk handed to the Parallel call
WorkerStart(c) ==
    /\ pc = "parallel"
    /\ task[c].st = "pending"
    /\ Cardinality(Running) < NJobs
    /\ task' = [task EXCEPT ![c] = [st |-> "running", i |-> ChunkStart(c),
                                   out |-> <<>>, faulted |-> FALSE]]
    /\ UNCHANGED <<taskRest, failSet, reads, gcForced, faults>>

\* batch_end = min(i + batch_size, end)
BatchEnd(c) == Min(task[c].i + SubBatchSize, ChunkEnd(c))

\* faulty variant: a sub-batch is skipped when memory is low
SkipWhenLow(m, i, be) == IF m THEN i ELSE be
\* the first j of the inner loop after the memory check returned m
FirstJ(m, i, be) == i

\* faulty variant: a reader error ends the inner loop (break)
BreakOnFailure(j, be) == be
\* the inner loop's next j after get_by_index(j) raised: continue
NextAfterFailure(j, be) == j + 1

\* for j in range(j, be): get_by_index(j); on success the spectrum with
\* coords[j] is appended to batch_spectra, on failure (j in F) the index is
\* logged and skipped. acc holds batch_spectra and the reader's call counts.
RECURSIVE InnerLoop(_, _, _, _)
InnerLoop(j, be, F, acc) ==
    IF j >= be THEN acc
    ELSE IF j \in F
    THEN InnerLoop(NextAfterFailure(j, be), be, F,
                   [acc EXCEPT !.reads[j] = @ + 1])
    ELSE InnerLoop(j + 1, be, F,
                   [batch |-> Append(acc.batch, Spectrum(j, coords)),
                    reads |-> [acc.reads EXCEPT ![j] = @ + 1]])

\* one iteration of the sub-batch loop: check_memory returns m, garbage
\* collection is forced when it is False; the inner loop fills
\* batch_spectra, the reader failing on the indices F of the sub-batch;
\* chunk_spectra.extend(batch_spectra)
WorkerSubBatch(c, m, F) ==
    /\ pc = "parallel"
    /\ task[c].st = "running"
    /\ task[c].i < ChunkEnd(c)
    /\ F \subseteq task[c].i..(BatchEnd(c) - 1)
    /\ Cardinality(failSet \cup F) <= failMax
    /\ failSet' = failSet \cup F
    /\ gcForced' = (gcForced \/ ~m)
    /\ LET r == InnerLoop(FirstJ(m, task[c].i, BatchEnd(c)), BatchEnd(c), F,
                          [batch |-> <<>>, reads |-> reads])
       IN  /\ reads' = r.reads
           /\ task' = [task EXCEPT ![c].out = @ \o r.batch,
                                   ![c].i = @ + SubBatchSize]
    /\ UNCHANGED <<taskRest, faults>>

\* faulty variant: the outer except clause returns an empty list
DropOnFault(out) == <<>>
\* what process_chunk returns after its outer except clause
FaultReturn(out) == out

\* an exception other than a reader error (raised by the memory check at the
\* head of the sub-batch loop) is caught by the outer except clause, logged,
\* and chunk_spectra is returned as it is
WorkerFault(c) ==
    /\ pc = "parallel"
    /\ task[c].st = "running"
    /\ task[c].i < ChunkEnd(c)
    /\ faults < MaxFaults
    /\ faults' = faults + 1
    /\ task' = [task EXCEPT ![c].st = "returned",
                            ![c].out = FaultReturn(task[c].out),
                            ![c].faulted = TRUE]
    /\ UNCHANGED <<taskRest, failSet, reads, gcForced>>

\* the sub-batch loop is exhausted: return chunk_spectra
WorkerReturn(c) ==
    /\ pc = "parallel"
    /\ task[c].st = "running"
    /\ task[c].i >= ChunkEnd(c)
    /\ task' = [task EXCEPT ![c].st = "returned"]
    /\ UNCHANGED <<taskRest, failSet, reads, gcForced, faults>>

WorkerStep(c) ==
    \/ WorkerStart(c)
    \/ \E m \in BOOLEAN,
          F \in SmallSubsets(task[c].i..(task[c].i + SubBatchSize - 1),
                             failMax - Cardinality(failSet)) :
          WorkerSubBatch(c, m, F)
    \/ WorkerFault(c)
    \/ WorkerReturn(c)

\* ---- _create_profile_spectra: after the Parallel call --------------------
\* faulty variant: the results of chunks lo..hi, last chunk first
RECURSIVE ConcatReversed(_, _)
ConcatReversed(lo, hi) ==
    IF lo > hi THEN <<>> ELSE ConcatReversed(lo + 1, hi) \o task[lo].out

\* the results of chunks lo..hi, in the order of current_chunks
RECURSIVE ConcatResults(_, _)
ConcatResults(lo, hi) ==
    IF lo > hi THEN <<>> ELSE task[lo].out \o ConcatResults(lo + 1, hi)

\* every task of the batch has returned: for chunk_result in results:
\* self.spectra.extend(chunk_result); del results
Collect ==
    /\ pc = "parallel"
    /\ \A c \in DOMAIN task : task[c].st \notin {"pending", "running"}
    /\ LET cur == BatchChunks(bi)
           lo == CHOOSE c \in cur : \A d \in cur : c <= d
           hi == CHOOSE c \in cur : \A d \in cur : c >= d
       IN  /\ spectra' = spectra \o ConcatResults(lo, hi)
           /\ task' = [c \in DOMAIN task |->
                         IF c \in cur
                         THEN [task[c] EXCEPT !.st = "appended", !.out = <<>>]
                         ELSE task[c]]
    /\ bi' = bi + BatchSize
    /\ pc' = "batch"
    /\ UNCHANGED <<x, y, failSet, failMax,
                   err, coords, chunk_size, chunk_indices,
                   writerOpened, wi, written, reads, gcForced, faults, drvVars>>

\* the batch loop is exhausted: __init__ goes on to _convert_to_imzml
ExtractDone ==
    /\ pc = "batch"
    /\ bi >= Len(chunk_indices)
    /\ pc' = "convert"
    /\ UNCHANGED <<x, y, failSet, failMax,
                   err, coords, chunk_size, chunk_indices, bi,
                   task, spectra, writerOpened, wi, written, reads, gcForced,
                   faults, drvVars>>

\* ---- _convert_to_imzml ----------------------------------------------------
OpenWriter ==
    /\ pc = "convert"
    /\ writerOpened' = TRUE
    /\ wi' = 0
    /\ pc' = "write"
    /\ UNCHANGED <<x, y, failSet, failMax,
                   err, coords, chunk_size, chunk_indices, bi,
                   task, spectra, written, reads, gcForced, faults, drvVars>>

\* ImzMLWriter(...) raises: except logs and re-raises, finally clears
OpenWriterFail ==
    /\ pc = "convert"
    /\ err' = "writer"
    /\ spectra' = <<>>
    /\ pc' = "failed"
    /\ UNCHANGED <<x, y, failSet, failMax,
                   coords, chunk_size, chunk_indices, bi,
                   task, writerOpened, wi, written, reads, gcForced, faults,
                   drvVars>>

\* batch = self.spectra[i:i + batch_size]
WriteSlice == SubSeq(spectra, wi + 1, Min(wi + WriteBatchSize, Len(spectra)))

\* one iteration of the write loop: memory check, then addSpectrum for
\* every spectrum of the batch
WriteBatch(m) ==
    /\ pc = "write"
    /\ wi < Len(spectra)
    /\ gcForced' = (gcForced \/ ~m)
    /\ written' = written \o WriteSlice
    /\ wi' = wi + WriteBatchSize
    /\ UNCHANGED <<x, y, failSet, failMax,
                   pc, err, coords, chunk_size, chunk_indices,
                   bi, task, spectra, writerOpened, reads, faults, drvVars>>

\* addSpectrum raises on the (k+1)-th spectrum of the batch: except logs and
\* re-raises, finally clears self.spectra
WriteFail(k) ==
    /\ pc = "write"
    /\ wi < Len(spectra)
    /\ k \in {0, Len(WriteSlice) - 1}
    /\ written' = written \o SubSeq(WriteSlice, 1, k)
    /\ err' = "writer"
    /\ spectra' = <<>>
    /\ pc' = "failed"
    /\ UNCHANGED <<x, y, failSet, failMax,
                   coords, chunk_size, chunk_indices,
                   bi, task, writerOpened, wi, reads, gcForced, faults,
                   drvVars>>

\* the write loop is exhausted: the writer is closed, finally clears
WriteDone ==
    /\ pc = "write"
    /\ wi >= Len(spectra)
    /\ spectra' = <<>>
    /\ pc' = "done"
    /\ UNCHANGED <<x, y, failSet, failMax,
                   err, coords, chunk_size, chunk_indices, bi,
                   task, writerOpened, wi, written, reads, gcForced, faults,
                   drvVars>>

Next ==
    \/ OpenReader
    \/ OpenReaderFail
    \/ BuildCoords
    \/ BuildChunks
    \/ \E m \in BOOLEAN : BatchStart(m)
    \/ BatchMemFail
    \/ ParallelFail
    \/ \E c \in DOMAIN task : WorkerStep(c)
    \/ Collect
    \/ ExtractDone
    \/ OpenWriter
    \/ OpenWriterFail
    \/ \E m \in BOOLEAN : WriteBatch(m)
    \/ \E k \in 0..(Len(spectra) - 1) : WriteFail(k)
    \/ WriteDone

Spec == Init /\ [][Next]_vars

\* ---- process_chunk on an arbitrary chunk range ---------------------------
\* one process_chunk(start, end, file, coords) call on the full grid, for
\* any range [start, end) and any set of failing indices inside it
InitChunk ==
    /\ x = MaxX
    /\ y = MaxY
    /\ \E s \in 0..MaxStart, n \in 0..MaxChunkLen :
          chunk_indices = << <<Min(s, x * y), Min(s + n, x * y)>> >>
    /\ failSet = {}
    /\ failMax = MaxChunkFail
    /\ pc = "parallel"
    /\ err = "none"
    /\ coords = Coords(x, y)
    /\ chunk_size = ChunkSize(x * y)
    /\ bi = 0
    /\ task = << [NewTask EXCEPT !.st = "pending"] >>
    /\ spectra = <<>>
    /\ writerOpened = FALSE
    /\ wi = 0
    /\ written = <<>>
    /\ reads = [j \in 0..(x * y - 1) |-> 0]
    /\ gcForced = FALSE
    /\ faults = 0
    /\ DrvIdle

NextChunk == \E c \in DOMAIN task : WorkerStep(c)

SpecChunk == InitChunk /\ [][NextChunk]_vars

\* ---- get_coords -----------------------------------------------------------
\* round(a / b) for b # 0: Python rounds an exact half to the even neighbour
RoundRatio(a, b) ==
    LET num == IF b > 0 THEN a ELSE -a
        den == IF b > 0 THEN b ELSE -b
        q == num \div den
        r == num - q * den
    IN  IF 2 * r < den THEN q
        ELSE IF 2 * r > den THEN q + 1
        ELSE IF q % 2 = 0 THEN q ELSE q + 1

\* xcoord, ycoord = round(x / xstep), round(y / ystep)
CoordsOf(m) == <<RoundRatio(m[1], m[2]), RoundRatio(m[3], m[4])>>

\* ---- run_conversion ---------------------------------------------------------
PipeIdle ==
    /\ x = 1 /\ y = 1 /\ failSet = {} /\ failMax = 0 /\ pc = "idle" /\ err = "none"
    /\ coords = <<>> /\ chunk_size = 0 /\ chunk_indices = <<>> /\ bi = 0
    /\ task = <<>> /\ spectra = <<>> /\ writerOpened = FALSE /\ wi = 0
    /\ written = <<>> /\ reads = <<>> /\ gcForced = FALSE /\ faults = 0

InitDriver ==
    /\ PipeIdle
    /\ dpc = "loop"
    /\ filesLeft \in 1..MaxFiles
    /\ nMzmlb = 0
    /\ nInf = 0
    /\ meta = <<0, 1, 0, 1>>
    /\ coordTuple = <<0, 0>>
    /\ derr = "none"
    /\ invoked = 0

\* for raw_file in raw_file_entries: the folders hold a mzmlb files matching
\* the id pattern and b files matching _*.inf
NextFile(a, b) ==
    /\ dpc = "loop"
    /\ filesLeft > 0
    /\ filesLeft' = filesLeft - 1
    /\ nMzmlb' = a
    /\ nInf' = b
    /\ dpc' = "lookup_mzmlb"
    /\ UNCHANGED <<pipeVars, meta, coordTuple, derr, invoked>>

\* list(glob(pattern))[0] on n matches: IndexError on an empty list, the
\* first match otherwise
FirstMatch(n) == IF n = 0 THEN "IndexError" ELSE "found"

\* mzmlb_file = str(list(pathlib.Path(mzmlb_folder).glob(id_lookup))[0])
LookupMzmlb ==
    /\ dpc = "lookup_mzmlb"
    /\ IF FirstMatch(nMzmlb) = "found"
       THEN dpc' = "lookup_inf" /\ derr' = derr
       ELSE dpc' = "crashed" /\ derr' = FirstMatch(nMzmlb)
    /\ UNCHANGED <<pipeVars, filesLeft, nMzmlb, nInf, meta, coordTuple, invoked>>

\* inf_file = str(list(pathlib.Path(file_folder).glob('_*.inf'))[0])
LookupInf ==
    /\ dpc = "lookup_inf"
    /\ IF FirstMatch(nInf) = "found"
       THEN dpc' = "get_coords" /\ derr' = derr
       ELSE dpc' = "crashed" /\ derr' = FirstMatch(nInf)
    /\ UNCHANGED <<pipeVars, filesLeft, nMzmlb, nInf, meta, coordTuple, invoked>>

\* get_coords(inf_file) on a file holding all four keys with the values m
GetCoords(m) ==
    /\ dpc = "get_coords"
    /\ meta' = m
    /\ IF m[2] = 0 \/ m[4] = 0
       THEN /\ dpc' = "crashed"
            /\ derr' = "ZeroDivisionError"
            /\ coordTuple' = coordTuple
       ELSE /\ coordTuple' = CoordsOf(m)
            /\ dpc' = "invoke"
            /\ derr' = derr
    /\ UNCHANGED <<pipeVars, filesLeft, nMzmlb, nInf, invoked>>

\* get_coords on a file that lacks one of the four keys: the name is unbound
\* at the division
GetCoordsMissingKey ==
    /\ dpc = "get_coords"
    /\ dpc' = "crashed"
    /\ derr' = "UnboundLocalError"
    /\ UNCHANGED <<pipeVars, filesLeft, nMzmlb, nInf, meta, coordTuple, invoked>>

\* mzmlb_conv(mzmlb_file, coord_tuple, ...) returns; the loop body's values
\* for this raw file are dead from here on
InvokeConv ==
    /\ dpc = "invoke"
    /\ invoked' = invoked + 1
    /\ dpc' = "loop"
    /\ meta' = <<0, 1, 0, 1>>
    /\ coordTuple' = <<0, 0>>
    /\ UNCHANGED <<pipeVars, filesLeft, nMzmlb, nInf, derr>>

\* mzmlb_conv(...) raises: nothing in run_conversion catches it
InvokeConvFail ==
    /\ dpc = "invoke"
    /\ invoked' = invoked + 1
    /\ dpc' = "crashed"
    /\ derr' = "ConversionError"
    /\ UNCHANGED <<pipeVars, filesLeft, nMzmlb, nInf, meta, coordTuple>>

\* the loop over the raw files is exhausted
DriverDone ==
    /\ dpc = "loop"
    /\ filesLeft = 0
    /\ dpc' = "finished"
    /\ UNCHANGED <<pipeVars, filesLeft, nMzmlb, nInf, meta, coordTuple, derr,
                   invoked>>

MetaValues ==
    {m \in (-MaxLen..MaxLen) \X (-MaxStep..MaxStep)
           \X (-MaxLen..MaxLen) \X (-MaxStep..MaxStep) : TRUE}

NextDriver ==
    \/ \E a \in 0..MaxMatches, b \in 0..MaxMatches : NextFile(a, b)
    \/ LookupMzmlb
    \/ LookupInf
    \/ \E m \in MetaValues : GetCoords(m)
    \/ GetCoordsMissingKey
    \/ InvokeConv
    \/ InvokeConvFail
    \/ DriverDone

SpecDriver == InitDriver /\ [][NextDriver]_vars

\* ===========================================================================
\* Properties
\* ===========================================================================
Started == pc \notin {"open", "coords", "idle"} /\ err # "open"

\* the ranges of ci partition 0..total-1 into contiguous half-open ranges of
\* cs indices, the last one possibly shorter
Covers(ci, total, cs) ==
    /\ Len(ci) >= 1
    /\ ci[1][1] = 0
    /\ ci[Len(ci)][2] = total
    /\ \A k \in 1..(Len(ci) - 1) :
          ci[k][2] = ci[k + 1][1] /\ ci[k][2] - ci[k][1] = cs
    /\ \A k \in 1..Len(ci) :
          ci[k][1] < ci[k][2] /\ ci[k][2] - ci[k][1] <= cs
    /\ \A j \in 0..(total - 1) :
          Cardinality({k \in 1..Len(ci) : ci[k][1] <= j /\ j < ci[k][2]}) = 1

ChunksStepDone == Started /\ pc # "chunks"

\* C1: for every totalPixels >= 1, once the orchestrator has executed the
\* chunk range construction, the chunk ranges cover [0, totalPixels) exactly
\* once, contiguously, only the last one shorter than the chunk size
\* (totalPixels in {1, 2, 3} included).
C1ChunksCover ==
    ChunksStepDone => Covers(chunk_indices, x * y, chunk_size)

\* the part of C1 that the code satisfies: grids of at least 4 pixels
C1FromFourPixels ==
    (ChunksStepDone /\ x * y >= 4) => Covers(chunk_indices, x * y, chunk_size)

StrictlyIncreasing(sq) ==
    \A k \in 1..(Len(sq) - 1) : sq[k].pixel < sq[k + 1].pixel

OwnCoords(sq) == \A k \in 1..Len(sq) : sq[k].coord = coords[sq[k].pixel + 1]

\* C2: a process_chunk call on [start, end) that met only reader failures
\* returns exactly one spectrum per non-failing index and none for a failing
\* one, in increasing index order, each with coords[j] of its own index;
\* no index is read twice, and every index of the range is read, whichever
\* indices before it failed.
C2ProcessChunk ==
    /\ \A j \in DOMAIN reads : reads[j] <= 1
    /\ \A c \in DOMAIN task :
          (task[c].st = "returned" /\ ~task[c].faulted) =>
             LET s == ChunkStart(c)
                 e == ChunkEnd(c)
                 F == failSet \cap (s..(e - 1))
                 out == task[c].out
             IN  /\ Len(out) = (e - s) - Cardinality(F)
                 /\ \A k \in 1..Len(out) : out[k].pixel \in (s..(e - 1)) \ F
                 /\ \A j \in (s..(e - 1)) \ F :
                       \E k \in 1..Len(out) : out[k].pixel = j
                 /\ StrictlyIncreasing(out)
                 /\ OwnCoords(out)
                 /\ \A j \in s..(e - 1) : reads[j] = 1

\* a chunk spanning more than one sub-batch returned with a failing index
\* that is not the last of its sub-batch
C2Witness ==
    \E c \in DOMAIN task :
       /\ task[c].st = "returned" /\ ~task[c].faulted
       /\ ChunkEnd(c) - ChunkStart(c) > SubBatchSize
       /\ ChunkStart(c) + 1 \in failSet
       /\ Len(task[c].out) = ChunkEnd(c) - ChunkStart(c) - Cardinality(failSet)
       /\ Cardinality(failSet) = MaxChunkFail

\* C3: the coordinate list has exactly width*height entries, pairwise
\* distinct, each (a, b, 1) with 1 <= a <= width and 1 <= b <= height, and
\* every such pair appears.
C3Coords ==
    Started =>
       LET entries == {coords[k] : k \in 1..Len(coords)}
       IN  /\ Len(coords) = x * y
           /\ Cardinality(entries) = Len(coords)
           /\ entries = (1..x) \X (1..y) \X {1}

C3Witness == pc = "chunks" /\ x = MaxX /\ y = MaxY /\ Len(coords) = MaxX * MaxY

\* the pixel indices whose read succeeded
ReadOk == {j \in DOMAIN reads : reads[j] >= 1 /\ j \notin failSet}

\* C4: when a conversion completes, the addSpectrum calls are exactly the
\* successfully read pixel indices, in strictly increasing order, each once
\* and with its own coordinate, failed indices absent, whatever the order in
\* which the workers ran and finished.
C4WriterSequence ==
    pc = "done" =>
       /\ Len(written) = Cardinality(ReadOk)
       /\ \A k \in 1..Len(written) : written[k].pixel \in ReadOk
       /\ \A j \in ReadOk : \E k \in 1..Len(written) : written[k].pixel = j
       /\ StrictlyIncreasing(written)
       /\ OwnCoords(written)
       /\ \A k \in 1..Len(written) : written[k].pixel \notin failSet

\* a conversion of at least two batches completed with a failed index
C4Witness ==
    /\ pc = "done"
    /\ Len(chunk_indices) > BatchSize
    /\ failSet # {}
    /\ Len(written) = x * y - Cardinality(failSet)
    /\ Len(written) >= 4

\* C5: when a conversion has ended, normally or by an unrecovered failure in
\* any phase, the accumulated spectrum sequence is empty.
C5Released == pc \in {"done", "failed"} => spectra = <<>>

\* C6: a lookup gets past list(glob(...))[0] only with exactly one match:
\* the orchestrator is reached only when both lookups had exactly one match.
C6ExactlyOneMatch ==
    /\ dpc \in {"lookup_inf", "get_coords", "invoke"} => nMzmlb = 1
    /\ dpc \in {"get_coords", "invoke"} => nInf = 1

\* C7: with all four keys present and non-zero steps, get_coords returns two
\* positive integers, the rounded ratios length/step.
C7PositiveDims ==
    dpc = "invoke" =>
       /\ coordTuple[1] >= 1
       /\ coordTuple[2] >= 1

\* the addSpectrum sequence of the run in which every index is read and the
\* non-failing ones are written in index order
RECURSIVE OutputUpTo(_)
OutputUpTo(n) ==
    IF n <= 0 THEN <<>>
    ELSE IF (n - 1) \in failSet THEN OutputUpTo(n - 1)
    ELSE Append(OutputUpTo(n - 1),
                [pixel |-> n - 1,
                 coord |-> <<((n - 1) \div y) + 1, ((n - 1) % y) + 1, 1>>])

\* C8: the addSpectrum sequence of a completed conversion is determined by
\* the grid and the reader's contents alone: runs that differ only in what
\* check_memory returned (and so in whether garbage collection was forced)
\* pass the same sequence to the writer.
C8MemoryIndependent ==
    (pc = "done" /\ faults = 0) => written = OutputUpTo(x * y)

\* a conversion completed after garbage collection was forced
C8Witness ==
    /\ pc = "done" /\ faults = 0 /\ gcForced
    /\ Len(written) >= 4
    /\ failSet # {}

\* C9 as stated: after a non-reader fault inside a worker the conversion is
\* aborted, the writer is never opened and nothing is written.
C9FaultAborts == faults > 0 => (~writerOpened /\ written = <<>>)

\* the spectra of the non-failing indices of lo..hi-1, in index order
RECURSIVE ReadRange(_, _)
ReadRange(lo, hi) ==
    IF lo >= hi THEN <<>>
    ELSE IF (hi - 1) \in failSet THEN ReadRange(lo, hi - 1)
    ELSE Append(ReadRange(lo, hi - 1), Spectrum(hi - 1, coords))

C9Contained ==
    /\ \A c \in DOMAIN task :
          (task[c].faulted /\ task[c].st = "returned") =>
             task[c].out = ReadRange(ChunkStart(c), task[c].i)
    /\ err \in {"range", "memcheck", "parallel"} =>
          (~writerOpened /\ written = <<>>)

\* C9 (amended): a non-reader fault inside a worker is caught by
\* process_chunk itself: the step leaves the orchestrator inside the
\* Parallel call with no error, and the chunk returns the spectra of the
\* sub-batches it had completed; only an exception of the Parallel call or
\* of the orchestrator's own steps of _create_profile_spectra ends the
\* conversion, and then the writer is never opened and nothing is written.
C9FaultContained ==
    /\ []C9Contained
    /\ [][faults' # faults => (pc' = "parallel" /\ err' = "none"
                                /\ spectra' = spectra)]_vars

\* a conversion completed and wrote spectra although a worker had faulted
\* and left indices of its chunk unread
C9Witness ==
    /\ pc = "done" /\ faults > 0 /\ writerOpened /\ Len(written) >= 4
    /\ \E j \in DOMAIN reads : reads[j] = 0

BatchOf(c) == (c - 1) \div BatchSize

TaskStarted(c) == task[c].st \in {"running", "returned", "appended"}

C10Inv ==
    /\ Cardinality(Running) <= 2
    /\ \A c, d \in DOMAIN task :
          (BatchOf(c) < BatchOf(d) /\ TaskStarted(d)) => task[c].st = "appended"
    /\ (writerOpened \/ written # <<>>) =>
          \A c \in DOMAIN task : task[c].st = "appended"

\* C10: at most 2 chunk tasks are in progress; no chunk of a later batch
\* starts before every chunk of the earlier batches has finished and been
\* appended; nothing reaches the writer before every chunk has been
\* appended; a worker step changes neither the accumulated sequence nor the
\* writer.
C10Barrier ==
    /\ []C10Inv
    /\ [][(\E c \in DOMAIN task : WorkerStep(c)) =>
             UNCHANGED <<spectra, written, writerOpened>>]_vars

\* both chunks of the second batch are running after the first batch was
\* appended
C10Witness ==
    /\ pc = "parallel"
    /\ bi = BatchSize
    /\ Cardinality(Running) = 2
    /\ spectra # <<>>
====
